---- MODULE Spec2Model ----
(***************************************************************************)
(* State machine of the FoodGuard client (src/src/App.js): the useAuth     *)
(* session hook, the FoodScannerApp scan orchestrator with its history     *)
(* cache, and the UserProfile allergy store.                               *)
(*                                                                         *)
(* JavaScript runs each handler to its next await, so one action is one    *)
(* run-to-completion slice of a handler: the part up to the request it     *)
(* issues, or the continuation that runs when the response arrives.  Every *)
(* suspended async function is one entry of net; entries are answered in   *)
(* any order.  React state of an unmounted component is gone: an entry     *)
(* carries live = FALSE once the component that issued it has unmounted,   *)
(* and then its state setters do nothing.                                  *)
(***************************************************************************)
EXTENDS Integers, Sequences, FiniteSets, TLC

VARIABLES
    token,          \* localStorage 'access_token' (NoToken: getItem gives null)
    user,           \* useAuth: user
    loading,        \* useAuth: loading
    crashed,        \* the React root was torn down by an error thrown in render
    net,            \* suspended async functions, in the order they were issued
    fetched,        \* history: outcome of the last fetchProfile made per token
    selectedImage,  \* FoodScannerApp state
    imagePreview,
    isAnalyzing,
    scanResult,
    nutritionData,
    showProfile,
    scanHistory,
    allergies,      \* UserProfile state
    saving          \* UserProfile: loading

authVars    == <<token, user, loading, crashed, fetched>>
scannerVars == <<selectedImage, imagePreview, isAnalyzing, scanResult,
                 nutritionData, showProfile, scanHistory>>
profileVars == <<allergies, saving>>
vars        == <<authVars, net, scannerVars, profileVars>>

----------------------------------------------------------------------------
(* Bounds of the model *)

MaxInFlight   == 2      \* user-started operations suspended at the same time
MaxTotalScans == 2      \* no analysis is started that could take total_scans above this
MaxAllergies  == 2      \* entries an allergy list is allowed to grow to

----------------------------------------------------------------------------
(* Values *)

NoToken == "null"
\* the access tokens the server hands out
Tokens  == {"t1"}

\* Strings are sequences of characters.
S_milk   == <<"m", "i", "l", "k">>
S_Milk   == <<"M", "i", "l", "k">>
S_milkSp == <<"m", "i", "l", "k", " ">>
S_blank  == <<" ">>
S_Soy    == <<"S", "o", "y">>
S_eggs   == <<"e", "g", "g", "s">>
S_image  == <<"i", "m", "a", "g", "e", "/">>
S_png    == S_image \o <<"p", "n", "g">>
S_pdf    == <<"a", "p", "p", "/", "p", "d", "f">>

\* String.prototype.toLowerCase on the characters the model uses
LowerChar(c) == IF c = "M" THEN "m" ELSE IF c = "S" THEN "s" ELSE c
toLowerCase(s) == [i \in 1..Len(s) |-> LowerChar(s[i])]

\* String.prototype.trim
RECURSIVE trimStart(_)
trimStart(s) == IF s # <<>> /\ Head(s) = " " THEN trimStart(Tail(s)) ELSE s
RECURSIVE trimEnd(_)
trimEnd(s) ==
    IF s # <<>> /\ s[Len(s)] = " " THEN trimEnd(SubSeq(s, 1, Len(s) - 1)) ELSE s
trim(s) == trimEnd(trimStart(s))

\* String.prototype.startsWith
startsWith(s, p) == Len(s) >= Len(p) /\ SubSeq(s, 1, Len(p)) = p

\* 10 * 1024 * 1024
MaxBytes == 10485760

Allergy(n, s, o) == [name |-> n, severity |-> s, notes |-> o]

NoUser == [present |-> FALSE, id |-> NoToken, allergies |-> <<>>, total_scans |-> 0]

\* GET /profile success bodies the server may send for the bearer token t
ProfileBodies(t) ==
    { [present |-> TRUE, id |-> t, allergies |-> a, total_scans |-> 0] :
        a \in { <<>> } }

NoFile == [name |-> "none", type |-> <<>>, size |-> 0]
Files ==
    { [name |-> "f1", type |-> S_png, size |-> MaxBytes],
      [name |-> "f2", type |-> S_png, size |-> MaxBytes + 1],
      [name |-> "f3", type |-> S_pdf, size |-> 1] }

NoPreview    == "null"
NoNutrition  == "null"
NoResult     == [id |-> "null", nutrition |-> NoNutrition]
\* POST /analyze-food success bodies: with and without a nutrition field
AnalyzeBodies ==
    { [id |-> "r1", nutrition |-> "n1"], [id |-> "r2", nutrition |-> NoNutrition] }

\* GET /scan-history success bodies (data.scans), as sequences of entry ids
HistoryBodies == { <<>>, <<1>> }

\* 2xx, non-2xx with a JSON body, non-2xx with another body, fetch rejected
Outcomes == {"ok", "http", "http_raw", "neterr"}

\* One suspended async function.  k: auth | profile | persist | analyze |
\* history | reader.  via: the operation it belongs to.  tok: the token it
\* carries.  live: its component is still mounted.  file, sent, usr: what the
\* closure captured.
Req(k, via, tok, live, file, sent, usr) ==
    [k |-> k, via |-> via, tok |-> tok, live |-> live,
     file |-> file, sent |-> sent, usr |-> usr]

Without(s, i) == SubSeq(s, 1, i - 1) \o SubSeq(s, i + 1, Len(s))

\* <App/> renders <FoodScannerApp/>
Mounted(u, l, c) == u.present /\ ~l /\ ~c
ScannerMounted == Mounted(user, loading, crashed)
\* <App/> renders <AuthWrapper/>
AuthWrapperMounted == ~user.present /\ ~loading /\ ~crashed

\* useEffect(() => { loadScanHistory(); }, []) up to its fetch, when a state
\* change mounts FoodScannerApp
MountEffect(n, u, l, c, tk) ==
    IF ~ScannerMounted /\ Mounted(u, l, c)
    THEN Append(n, Req("history", "mount", tk, TRUE, NoFile, <<>>, NoUser))
    ELSE n

\* the components of the tree are unmounted: what they had in flight goes on
Orphan(n) == [i \in 1..Len(n) |-> [n[i] EXCEPT !.live = FALSE]]

ScannerInit ==
    /\ selectedImage = NoFile
    /\ imagePreview = NoPreview
    /\ isAnalyzing = FALSE
    /\ scanResult = NoResult
    /\ nutritionData = NoNutrition
    /\ showProfile = FALSE
    /\ scanHistory = <<>>

ProfileInit ==
    /\ allergies = <<>>
    /\ saving = FALSE

Init ==
    /\ token \in Tokens \cup {NoToken}
    /\ user = NoUser
    /\ loading = TRUE
    /\ crashed = FALSE
    /\ net = <<>>
    /\ fetched = [t \in Tokens |-> "none"]
    /\ ScannerInit
    /\ ProfileInit

----------------------------------------------------------------------------
(* useAuth *)

\* the mount effect of useAuth; it runs once: nothing is in flight and no
\* profile fetch has answered yet
Initialize ==
    /\ loading /\ net = <<>> /\ ~crashed
    /\ \A t \in Tokens : fetched[t] = "none"
    /\ IF token # NoToken
       THEN /\ net' = <<Req("profile", "init", token, TRUE, NoFile, <<>>, NoUser)>>
            /\ UNCHANGED loading
       ELSE /\ loading' = FALSE
            /\ UNCHANGED net
    /\ UNCHANGED <<token, user, crashed, fetched, scannerVars, profileVars>>

\* login / register from the form's submit to the fetch of /auth/...; the
\* health check before it changes nothing and its result is only logged.  A
\* form disables its own submit button while its call is pending, but the
\* toggle between LoginForm and RegisterForm mounts a fresh form, so calls
\* overlap.
StartAuth(via) ==
    /\ AuthWrapperMounted
    /\ Len(net) < MaxInFlight
    /\ net' = Append(net, Req("auth", via, NoToken, TRUE, NoFile, <<>>, NoUser))
    /\ UNCHANGED <<authVars, scannerVars, profileVars>>

login == StartAuth("login")

register == StartAuth("register")

\* what the promise of login resolves to: every path of login returns, and the
\* catch block turns a rejected fetch into a value
loginReturn(outcome) ==
    CASE outcome = "ok"       -> [success |-> TRUE,  error |-> "undefined"]
      [] outcome = "http"     -> [success |-> FALSE, error |-> "errorData.error || Login failed"]
      [] outcome = "http_raw" -> [success |-> FALSE, error |-> "Server error: status"]
      [] outcome = "neterr"   -> [success |-> FALSE, error |-> "Connection failed"]

\* login / register without the test of response.ok
AuthResponse_IgnoresStatus(i, outcome, t) ==
    /\ i \in 1..Len(net) /\ net[i].k = "auth"
    /\ IF outcome \in {"ok", "http", "http_raw"}
       THEN /\ token' = t
            /\ net' = Append(Without(net, i),
                             Req("profile", net[i].via, t, TRUE, NoFile, <<>>, NoUser))
       ELSE /\ net' = Without(net, i)
            /\ UNCHANGED token
    /\ UNCHANGED <<user, loading, crashed, fetched, scannerVars, profileVars>>

\* login / register from the response of /auth/... on
AuthResponse(i, outcome, t) ==
    /\ i \in 1..Len(net) /\ net[i].k = "auth"
    /\ IF outcome = "ok"
       THEN /\ token' = t
            /\ net' = Append(Without(net, i),
                             Req("profile", net[i].via, t, TRUE, NoFile, <<>>, NoUser))
       ELSE /\ net' = Without(net, i)
            /\ UNCHANGED token
    /\ UNCHANGED <<user, loading, crashed, fetched, scannerVars, profileVars>>

\* fetchProfile with setLoading(false) on the 2xx path alone
fetchProfile_LoadingOnSuccess(i, outcome, data) ==
    /\ i \in 1..Len(net) /\ net[i].k = "profile"
    /\ fetched' = [fetched EXCEPT ![net[i].tok] = IF outcome = "ok" THEN "ok" ELSE "fail"]
    /\ loading' = IF crashed \/ outcome # "ok" THEN loading ELSE FALSE
    /\ IF outcome = "ok"
       THEN /\ user' = IF crashed THEN user ELSE data
            /\ UNCHANGED token
       ELSE /\ token' = NoToken
            /\ UNCHANGED user
    /\ net' = MountEffect(Without(net, i), user', loading', crashed, token')
    /\ UNCHANGED <<crashed, scannerVars, profileVars>>

\* fetchProfile from the response of /profile on, and the return of the
\* login / register that awaited it
fetchProfile(i, outcome, data) ==
    /\ i \in 1..Len(net) /\ net[i].k = "profile"
    /\ fetched' = [fetched EXCEPT ![net[i].tok] = IF outcome = "ok" THEN "ok" ELSE "fail"]
    /\ loading' = IF crashed THEN loading ELSE FALSE
    /\ IF outcome = "ok"
       THEN /\ user' = IF crashed THEN user ELSE data
            /\ UNCHANGED token
       ELSE /\ token' = NoToken
            /\ UNCHANGED user
    /\ net' = MountEffect(Without(net, i), user', loading', crashed, token')
    /\ UNCHANGED <<crashed, scannerVars, profileVars>>

\* FoodScannerApp / UserProfile unmount: their useState values are dropped and
\* the next mount starts from the initial ones
ScannerReset ==
    /\ selectedImage' = NoFile
    /\ imagePreview' = NoPreview
    /\ isAnalyzing' = FALSE
    /\ scanResult' = NoResult
    /\ nutritionData' = NoNutrition
    /\ showProfile' = FALSE
    /\ scanHistory' = <<>>

ProfileReset ==
    /\ allergies' = <<>>
    /\ saving' = FALSE

\* logout without localStorage.removeItem('access_token')
logout_KeepsToken ==
    /\ ScannerMounted /\ ~showProfile
    /\ user' = NoUser
    /\ net' = Orphan(net)
    /\ ScannerReset /\ ProfileReset
    /\ UNCHANGED <<token, loading, crashed, fetched>>

\* logout from the click on the logout button of the FoodScannerApp header
logout ==
    /\ ScannerMounted /\ ~showProfile
    /\ token' = NoToken
    /\ user' = NoUser
    /\ net' = Orphan(net)
    /\ ScannerReset /\ ProfileReset
    /\ UNCHANGED <<loading, crashed, fetched>>

----------------------------------------------------------------------------
(* FoodScannerApp *)

\* handleImageSelect without the size validation
handleImageSelect_NoSizeCheck(file) ==
    /\ ScannerMounted /\ ~showProfile
    /\ IF file = NoFile \/ ~startsWith(file.type, S_image)
       THEN UNCHANGED <<selectedImage, scanResult, nutritionData, net>>
       ELSE /\ Len(net) < MaxInFlight
            /\ selectedImage' = file
            /\ net' = Append(net, Req("reader", "select", NoToken, TRUE, file, <<>>, NoUser))
            /\ scanResult' = NoResult
            /\ nutritionData' = NoNutrition
    /\ UNCHANGED <<authVars, imagePreview, isAnalyzing, showProfile, scanHistory,
                   profileVars>>

\* handleImageSelect without setNutritionData(null)
handleImageSelect_KeepsNutrition(file) ==
    /\ ScannerMounted /\ ~showProfile
    /\ IF file = NoFile \/ ~startsWith(file.type, S_image) \/ file.size > MaxBytes
       THEN UNCHANGED <<selectedImage, scanResult, net>>
       ELSE /\ Len(net) < MaxInFlight
            /\ selectedImage' = file
            /\ net' = Append(net, Req("reader", "select", NoToken, TRUE, file, <<>>, NoUser))
            /\ scanResult' = NoResult
    /\ UNCHANGED <<authVars, imagePreview, isAnalyzing, nutritionData, showProfile,
                   scanHistory, profileVars>>

\* handleImageSelect; file = NoFile: event.target.files[0] is undefined
handleImageSelect(file) ==
    /\ ScannerMounted /\ ~showProfile
    /\ IF file = NoFile \/ ~startsWith(file.type, S_image) \/ file.size > MaxBytes
       THEN UNCHANGED <<selectedImage, scanResult, nutritionData, net>>
       ELSE /\ Len(net) < MaxInFlight
            /\ selectedImage' = file
            /\ net' = Append(net, Req("reader", "select", NoToken, TRUE, file, <<>>, NoUser))
            /\ scanResult' = NoResult
            /\ nutritionData' = NoNutrition
    /\ UNCHANGED <<authVars, imagePreview, isAnalyzing, showProfile, scanHistory,
                   profileVars>>

\* reader.onload; the data URL of a file is named by the file.  loaded = FALSE:
\* the read fails and onload is never called.
readerOnload(i, loaded) ==
    /\ i \in 1..Len(net) /\ net[i].k = "reader"
    /\ imagePreview' = IF loaded /\ net[i].live THEN net[i].file.name ELSE imagePreview
    /\ net' = Without(net, i)
    /\ UNCHANGED <<authVars, selectedImage, isAnalyzing, scanResult, nutritionData,
                   showProfile, scanHistory, profileVars>>

\* Every user record a continuation may still install has room for the scans
\* in flight and one more (the bound on total_scans).
ScanRoom ==
    LET flying == Cardinality({i \in 1..Len(net) : net[i].k = "analyze"})
        held == {user} \cup {net[i].usr : i \in {j \in 1..Len(net) : net[j].k = "persist"}}
    IN  \A u \in held : u.total_scans + flying < MaxTotalScans

\* analyzeImage behind a button that stays enabled while isAnalyzing
analyzeImage_NotDisabled ==
    /\ ScannerMounted /\ ~showProfile
    /\ selectedImage # NoFile
    /\ Len(net) < MaxInFlight /\ ScanRoom
    /\ isAnalyzing' = TRUE
    /\ net' = Append(net, Req("analyze", "analyze", token, TRUE, selectedImage, <<>>, NoUser))
    /\ UNCHANGED <<authVars, selectedImage, imagePreview, scanResult, nutritionData,
                   showProfile, scanHistory, profileVars>>

\* analyzeImage from the click on the analyze button (disabled while
\* !selectedImage || isAnalyzing) to the fetch of /analyze-food
analyzeImage ==
    /\ ScannerMounted /\ ~showProfile
    /\ selectedImage # NoFile /\ ~isAnalyzing
    /\ Len(net) < MaxInFlight /\ ScanRoom
    /\ isAnalyzing' = TRUE
    /\ net' = Append(net, Req("analyze", "analyze", token, TRUE, selectedImage, <<>>, NoUser))
    /\ UNCHANGED <<authVars, selectedImage, imagePreview, scanResult, nutritionData,
                   showProfile, scanHistory, profileVars>>

\* setUser(prev => ({ ...prev, total_scans: (prev.total_scans || 0) + 1 }))
bumpScans(prev) == [prev EXCEPT !.total_scans = prev.total_scans + 1]

\* analyzeImage whose failure paths drop the result on display
analyzeResponse_FailureClears(i, outcome, result, sync) ==
    /\ i \in 1..Len(net) /\ net[i].k = "analyze"
    /\ LET r == net[i]
           throws == outcome = "ok" /\ ~crashed /\ ~user.present
           refresh == outcome = "ok" /\ ~(throws /\ sync)
       IN  /\ scanResult' = IF ~r.live THEN scanResult
                            ELSE IF outcome = "ok" THEN result ELSE NoResult
           /\ nutritionData' = IF ~r.live THEN nutritionData
                               ELSE IF outcome = "ok" THEN result.nutrition ELSE NoNutrition
           /\ user' = IF outcome = "ok" /\ ~crashed /\ user.present THEN bumpScans(user)
                      ELSE user
           /\ crashed' = (crashed \/ throws)
           /\ net' = IF refresh
                     THEN Append(Without(net, i),
                                 Req("history", "analyze", token, r.live, NoFile, <<>>, NoUser))
                     ELSE Without(net, i)
           /\ isAnalyzing' = IF ~refresh /\ r.live THEN FALSE ELSE isAnalyzing
    /\ UNCHANGED <<token, loading, fetched, selectedImage, imagePreview, showProfile,
                   scanHistory, profileVars>>

\* analyzeImage without setNutritionData(result.nutrition)
analyzeResponse_NoNutrition(i, outcome, result, sync) ==
    /\ i \in 1..Len(net) /\ net[i].k = "analyze"
    /\ LET r == net[i]
           throws == outcome = "ok" /\ ~crashed /\ ~user.present
           refresh == outcome = "ok" /\ ~(throws /\ sync)
       IN  /\ scanResult' = IF outcome = "ok" /\ r.live THEN result ELSE scanResult
           /\ user' = IF outcome = "ok" /\ ~crashed /\ user.present THEN bumpScans(user)
                      ELSE user
           /\ crashed' = (crashed \/ throws)
           /\ net' = IF refresh
                     THEN Append(Without(net, i),
                                 Req("history", "analyze", token, r.live, NoFile, <<>>, NoUser))
                     ELSE Without(net, i)
           /\ isAnalyzing' = IF ~refresh /\ r.live THEN FALSE ELSE isAnalyzing
    /\ UNCHANGED <<token, loading, fetched, selectedImage, imagePreview, showProfile,
                   scanHistory, profileVars, nutritionData>>

\* analyzeImage with setIsAnalyzing(false) as the last statement of the try
\* block: a rejected fetch and a non-2xx body that is not JSON skip it
analyzeResponse_CatchKeepsAnalyzing(i, outcome, result, sync) ==
    /\ i \in 1..Len(net) /\ net[i].k = "analyze"
    /\ LET r == net[i]
           throws == outcome = "ok" /\ ~crashed /\ ~user.present
           refresh == outcome = "ok" /\ ~(throws /\ sync)
       IN  /\ scanResult' = IF outcome = "ok" /\ r.live THEN result ELSE scanResult
           /\ nutritionData' = IF outcome = "ok" /\ r.live THEN result.nutrition
                               ELSE nutritionData
           /\ user' = IF outcome = "ok" /\ ~crashed /\ user.present THEN bumpScans(user)
                      ELSE user
           /\ crashed' = (crashed \/ throws)
           /\ net' = IF refresh
                     THEN Append(Without(net, i),
                                 Req("history", "analyze", token, r.live, NoFile, <<>>, NoUser))
                     ELSE Without(net, i)
           /\ isAnalyzing' = IF outcome = "http" /\ r.live THEN FALSE ELSE isAnalyzing
    /\ UNCHANGED <<token, loading, fetched, selectedImage, imagePreview, showProfile,
                   scanHistory, profileVars>>

\* analyzeImage that drops the response of an analysis whose image is no
\* longer the selected one
analyzeResponse_DropsStale(i, outcome, result, sync) ==
    /\ i \in 1..Len(net) /\ net[i].k = "analyze"
    /\ LET r == net[i]
           fresh == outcome = "ok" /\ r.file = selectedImage
           throws == fresh /\ ~crashed /\ ~user.present
           refresh == fresh /\ ~(throws /\ sync)
       IN  /\ scanResult' = IF fresh /\ r.live THEN result ELSE scanResult
           /\ nutritionData' = IF fresh /\ r.live THEN result.nutrition
                               ELSE nutritionData
           /\ user' = IF fresh /\ ~crashed /\ user.present THEN bumpScans(user)
                      ELSE user
           /\ crashed' = (crashed \/ throws)
           /\ net' = IF refresh
                     THEN Append(Without(net, i),
                                 Req("history", "analyze", token, r.live, NoFile, <<>>, NoUser))
                     ELSE Without(net, i)
           /\ isAnalyzing' = IF ~refresh /\ r.live THEN FALSE ELSE isAnalyzing
    /\ UNCHANGED <<token, loading, fetched, selectedImage, imagePreview, showProfile,
                   scanHistory, profileVars>>

\* analyzeImage from the response of /analyze-food to the fetch of
\* loadScanHistory (2xx) or to its end (otherwise).  With no user the updater
\* reads a property of null and throws in render, which tears the root down;
\* sync: the render runs inside setUser and the error reaches the catch block
\* of analyzeImage (legacy root), otherwise it runs later (concurrent root).
analyzeResponse(i, outcome, result, sync) ==
    /\ i \in 1..Len(net) /\ net[i].k = "analyze"
    /\ LET r == net[i]
           throws == outcome = "ok" /\ ~crashed /\ ~user.present
           refresh == outcome = "ok" /\ ~(throws /\ sync)
       IN  /\ scanResult' = IF outcome = "ok" /\ r.live THEN result ELSE scanResult
           /\ nutritionData' = IF outcome = "ok" /\ r.live THEN result.nutrition
                               ELSE nutritionData
           /\ user' = IF outcome = "ok" /\ ~crashed /\ user.present THEN bumpScans(user)
                      ELSE user
           /\ crashed' = (crashed \/ throws)
           /\ net' = IF refresh
                     THEN Append(Without(net, i),
                                 Req("history", "analyze", token, r.live, NoFile, <<>>, NoUser))
                     ELSE Without(net, i)
           /\ isAnalyzing' = IF ~refresh /\ r.live THEN FALSE ELSE isAnalyzing
    /\ UNCHANGED <<token, loading, fetched, selectedImage, imagePreview, showProfile,
                   scanHistory, profileVars>>

\* loadScanHistory that appends the scans of the response to the history
loadScanHistory_Appends(i, outcome, scans) ==
    /\ i \in 1..Len(net) /\ net[i].k = "history"
    /\ scanHistory' = IF outcome = "ok" /\ net[i].live THEN scanHistory \o scans
                      ELSE scanHistory
    /\ isAnalyzing' = IF net[i].via = "analyze" /\ net[i].live THEN FALSE ELSE isAnalyzing
    /\ net' = Without(net, i)
    /\ UNCHANGED <<authVars, selectedImage, imagePreview, scanResult, nutritionData,
                   showProfile, profileVars>>

\* loadScanHistory from the response of /scan-history on, and the end of the
\* analyzeImage that awaited it
loadScanHistory(i, outcome, scans) ==
    /\ i \in 1..Len(net) /\ net[i].k = "history"
    /\ scanHistory' = IF outcome = "ok" /\ net[i].live THEN scans ELSE scanHistory
    /\ isAnalyzing' = IF net[i].via = "analyze" /\ net[i].live THEN FALSE ELSE isAnalyzing
    /\ net' = Without(net, i)
    /\ UNCHANGED <<authVars, selectedImage, imagePreview, scanResult, nutritionData,
                   showProfile, profileVars>>

\* the profile button: setShowProfile(true) mounts UserProfile, whose
\* allergies start as user.allergies || []
openProfile ==
    /\ ScannerMounted /\ ~showProfile
    /\ showProfile' = TRUE
    /\ allergies' = user.allergies
    /\ saving' = FALSE
    /\ UNCHANGED <<authVars, net, selectedImage, imagePreview, isAnalyzing, scanResult,
                   nutritionData, scanHistory>>

\* onBack: setShowProfile(false) unmounts UserProfile
onBack ==
    /\ ScannerMounted /\ showProfile
    /\ showProfile' = FALSE
    /\ ProfileReset
    /\ net' = [i \in 1..Len(net) |->
                 IF net[i].k = "persist" THEN [net[i] EXCEPT !.live = FALSE] ELSE net[i]]
    /\ UNCHANGED <<authVars, selectedImage, imagePreview, isAnalyzing, scanResult,
                   nutritionData, scanHistory>>

----------------------------------------------------------------------------
(* UserProfile *)

ProfileMounted == ScannerMounted /\ showProfile

\* allergies.find(a => a.name.toLowerCase() === newAllergy.name.toLowerCase())
findFolded(list, name) ==
    \E j \in 1..Len(list) : toLowerCase(list[j].name) = toLowerCase(name)

\* allergies.find(a => a.name === allergen)
findExact(list, name) == \E j \in 1..Len(list) : list[j].name = name

\* addAllergy with newAllergy = {name, severity, notes} typed into the form
addAllergy(name, severity, notes) ==
    /\ ProfileMounted
    /\ IF trim(name) # <<>> /\ ~findFolded(allergies, name)
       THEN /\ Len(allergies) < MaxAllergies
            /\ allergies' = Append(allergies,
                                   Allergy(toLowerCase(trim(name)), severity, trim(notes)))
       ELSE UNCHANGED allergies
    /\ UNCHANGED <<authVars, net, scannerVars, saving>>

\* the 22 names of commonAllergens, of which the model keeps two
commonAllergens == {S_milk, S_eggs}

\* onClick of a quick-add button
quickAdd(allergen) ==
    /\ ProfileMounted
    /\ allergen \in commonAllergens
    /\ IF ~findExact(allergies, allergen)
       THEN /\ Len(allergies) < MaxAllergies
            /\ allergies' = Append(allergies, Allergy(allergen, "moderate", <<>>))
       ELSE UNCHANGED allergies
    /\ UNCHANGED <<authVars, net, scannerVars, saving>>

\* removeAllergy(allergy.name) from the remove button of entry j
removeAllergy(j) ==
    /\ ProfileMounted
    /\ j \in 1..Len(allergies)
    /\ allergies' = SelectSeq(allergies, LAMBDA a : a.name # allergies[j].name)
    /\ UNCHANGED <<authVars, net, scannerVars, saving>>

\* saveAllergies from the click on the save button (disabled while loading) to
\* the fetch of /profile/allergies
saveAllergies ==
    /\ ProfileMounted /\ ~saving
    /\ Len(net) < MaxInFlight
    /\ saving' = TRUE
    /\ net' = Append(net, Req("persist", "save", token, TRUE, NoFile, allergies, user))
    /\ UNCHANGED <<authVars, scannerVars, allergies>>

\* saveAllergies that sets the allergies of the user as it is when the
\* response arrives: onProfileUpdate(prev => ({ ...prev, allergies }))
persistResponse_MergesIntoCurrent(i, outcome) ==
    /\ i \in 1..Len(net) /\ net[i].k = "persist"
    /\ user' = IF outcome = "ok" /\ ~crashed /\ user.present
               THEN [user EXCEPT !.allergies = net[i].sent]
               ELSE user
    /\ saving' = IF net[i].live THEN FALSE ELSE saving
    /\ net' = MountEffect(Without(net, i), user', loading, crashed, token)
    /\ UNCHANGED <<token, loading, crashed, fetched, scannerVars, allergies>>

\* saveAllergies that removes the token when its request fails, as
\* fetchProfile does
persistResponse_ClearsToken(i, outcome) ==
    /\ i \in 1..Len(net) /\ net[i].k = "persist"
    /\ user' = IF outcome = "ok" /\ ~crashed
               THEN [net[i].usr EXCEPT !.allergies = net[i].sent]
               ELSE user
    /\ token' = IF outcome = "ok" THEN token ELSE NoToken
    /\ saving' = IF net[i].live THEN FALSE ELSE saving
    /\ net' = MountEffect(Without(net, i), user', loading, crashed, token')
    /\ UNCHANGED <<loading, crashed, fetched, scannerVars, allergies>>

\* saveAllergies with setLoading(false) inside the if (response.ok) branch
persistResponse_StaysSaving(i, outcome) ==
    /\ i \in 1..Len(net) /\ net[i].k = "persist"
    /\ user' = IF outcome = "ok" /\ ~crashed
               THEN [net[i].usr EXCEPT !.allergies = net[i].sent]
               ELSE user
    /\ saving' = IF net[i].live /\ outcome = "ok" THEN FALSE ELSE saving
    /\ net' = MountEffect(Without(net, i), user', loading, crashed, token)
    /\ UNCHANGED <<token, loading, crashed, fetched, scannerVars, allergies>>

\* saveAllergies that hands the list as it is when the response arrives to
\* onProfileUpdate
persistResponse_CurrentList(i, outcome) ==
    /\ i \in 1..Len(net) /\ net[i].k = "persist"
    /\ user' = IF outcome = "ok" /\ ~crashed
               THEN [net[i].usr EXCEPT !.allergies = allergies]
               ELSE user
    /\ saving' = IF net[i].live THEN FALSE ELSE saving
    /\ net' = MountEffect(Without(net, i), user', loading, crashed, token)
    /\ UNCHANGED <<token, loading, crashed, fetched, scannerVars, allergies>>

\* saveAllergies from the response of /profile/allergies on:
\* onProfileUpdate({ ...user, allergies }) with the user and the allergies of
\* the render the button was clicked in
persistResponse(i, outcome) ==
    /\ i \in 1..Len(net) /\ net[i].k = "persist"
    /\ user' = IF outcome = "ok" /\ ~crashed
               THEN [net[i].usr EXCEPT !.allergies = net[i].sent]
               ELSE user
    /\ saving' = IF net[i].live THEN FALSE ELSE saving
    /\ net' = MountEffect(Without(net, i), user', loading, crashed, token)
    /\ UNCHANGED <<token, loading, crashed, fetched, scannerVars, allergies>>

----------------------------------------------------------------------------
(* Inputs *)

\* what the user types into the custom allergy form
NameInputs     == {S_milk, S_Milk, S_milkSp, S_blank, S_Soy}
SeverityInputs == {"mild", "moderate", "severe"}
NoteInputs     == {<<>>, <<"x", " ">>}

\* the body of a response matters on 2xx alone, and the kind of root only when
\* the updater throws
Next ==
    \/ Initialize
    \/ login
    \/ register
    \/ \E i \in 1..Len(net), o \in Outcomes \ {"http_raw"}, t \in Tokens :
         AuthResponse(i, o, t)
    \/ \E i \in 1..Len(net), o \in Outcomes \ {"http_raw"} :
         \E d \in ProfileBodies(net[i].tok) : fetchProfile(i, o, d)
    \/ logout
    \/ \E f \in Files \cup {NoFile} : handleImageSelect(f)
    \/ \E i \in 1..Len(net), l \in BOOLEAN : readerOnload(i, l)
    \/ analyzeImage
    \/ \E i \in 1..Len(net), o \in Outcomes :
         \E r \in (IF o = "ok" THEN AnalyzeBodies ELSE {NoResult}),
            s \in (IF o = "ok" /\ ~user.present THEN BOOLEAN ELSE {FALSE}) :
           analyzeResponse(i, o, r, s)
    \/ \E i \in 1..Len(net), o \in Outcomes \ {"http_raw"} :
         \E h \in (IF o = "ok" THEN HistoryBodies ELSE {<<>>}) : loadScanHistory(i, o, h)
    \/ openProfile
    \/ onBack
    \/ quickAdd(S_eggs)
    \/ \E j \in 1..Len(allergies) : removeAllergy(j)
    \/ saveAllergies
    \/ \E i \in 1..Len(net), o \in Outcomes \ {"http_raw"} : persistResponse(i, o)

Spec == Init /\ [][Next]_vars

\* The same program where what the runtime guarantees does happen: React runs
\* the mount effect of useAuth after the first render, and the fetch of
\* /profile settles (it resolves or it rejects).
FairSpec ==
    /\ Spec
    /\ WF_vars(Initialize)
    /\ WF_vars(\E i \in 1..Len(net), o \in Outcomes \ {"http_raw"} :
                 \E d \in ProfileBodies(net[i].tok) : fetchProfile(i, o, d))

\* The same program where every request of the scanner is answered: the fetch
\* of /analyze-food and the fetch of /scan-history settle (they resolve or
\* they reject).
FairScanSpec ==
    /\ Spec
    /\ WF_vars(\E i \in 1..Len(net), o \in Outcomes :
                 \E r \in AnalyzeBodies \cup {NoResult}, s \in BOOLEAN :
                   analyzeResponse(i, o, r, s))
    /\ WF_vars(\E i \in 1..Len(net), o \in Outcomes \ {"http_raw"} :
                 \E h \in HistoryBodies : loadScanHistory(i, o, h))

----------------------------------------------------------------------------
(* The allergy store on its own: a signed-in user with the profile page open  *)
(* and nothing in flight, and every edit of the local list.                   *)

AllergyInit ==
    /\ token \in Tokens
    /\ \E a \in { <<>>, <<Allergy(S_eggs, "mild", <<>>)>> } :
         /\ user = [present |-> TRUE, id |-> token, allergies |-> a, total_scans |-> 0]
         /\ allergies = a
    /\ loading = FALSE
    /\ crashed = FALSE
    /\ net = <<>>
    /\ fetched = [t \in Tokens |-> "ok"]
    /\ selectedImage = NoFile
    /\ imagePreview = NoPreview
    /\ isAnalyzing = FALSE
    /\ scanResult = NoResult
    /\ nutritionData = NoNutrition
    /\ showProfile = TRUE
    /\ scanHistory = <<>>
    /\ saving = FALSE

AllergyNext ==
    \/ \E n \in NameInputs, s \in SeverityInputs, o \in NoteInputs : addAllergy(n, s, o)
    \/ \E a \in commonAllergens : quickAdd(a)
    \/ \E j \in 1..Len(allergies) : removeAllergy(j)

AllergySpec == AllergyInit /\ [][AllergyNext]_vars

----------------------------------------------------------------------------
(* The scanner on its own: a user who has just signed in (the history request *)
(* of the mount effect is in flight) and who picks among several images.      *)

\* per_page=5 of the /scan-history request
PageSize == 5

\* a 2xx body of /scan-history with more scans than were asked for
LongHistory == [n \in 1..(PageSize + 1) |-> n]

\* a second image that handleImageSelect accepts
OtherImage == [name |-> "f4", type |-> S_png, size |-> 1]

ScannerSpecInit ==
    /\ token \in Tokens
    /\ user \in ProfileBodies(token)
    /\ loading = FALSE
    /\ crashed = FALSE
    /\ net = <<Req("history", "mount", token, TRUE, NoFile, <<>>, NoUser)>>
    /\ fetched = [t \in Tokens |-> "ok"]
    /\ ScannerInit
    /\ ProfileInit

ScannerNext ==
    \/ \E f \in Files \cup {OtherImage} : handleImageSelect(f)
    \/ \E i \in 1..Len(net), l \in BOOLEAN : readerOnload(i, l)
    \/ analyzeImage
    \/ \E i \in 1..Len(net), o \in Outcomes :
         \E r \in (IF o = "ok" THEN AnalyzeBodies ELSE {NoResult}) :
           analyzeResponse(i, o, r, FALSE)
    \/ \E i \in 1..Len(net), o \in Outcomes \ {"http_raw"} :
         \E h \in (IF o = "ok" THEN HistoryBodies \cup {LongHistory} ELSE {<<>>}) :
           loadScanHistory(i, o, h)

ScannerSpec == ScannerSpecInit /\ [][ScannerNext]_vars

----------------------------------------------------------------------------
(* Claims *)

Failures == {"http", "http_raw", "neterr"}
Flying(n, k) == {i \in 1..Len(n) : n[i].k = k}

\* C1: in every reachable state an absent persisted token implies an absent
\* user, and a user is present only if the last profile fetch made with the
\* persisted token succeeded.
C1_SessionInvariant ==
    /\ token = NoToken => ~user.present
    /\ user.present => token # NoToken /\ fetched[token] = "ok"

\* C2: when a login whose authentication request got a 2xx response completes
\* (its profile fetch resolves), the user is present and the returned token is
\* persisted.
C2_LoginEstablishesSession ==
    [][\A i \in 1..Len(net) :
         net[i].k = "profile" /\ net[i].via = "login" =>
           \A o \in Outcomes, d \in ProfileBodies(net[i].tok) :
             fetchProfile(i, o, d) => user'.present /\ token' = net[i].tok]_vars

\* C3: once the session is Ready, whether a user is present changes only from
\* present to absent by logout or a rejected profile fetch, and from absent to
\* present by the successful profile fetch of a login or register.
C3_OnlyAuthTransitions ==
    [][~loading /\ user.present # user'.present =>
         IF user.present
         THEN \/ logout
              \/ \E i \in 1..Len(net) :
                   /\ net[i].k = "profile"
                   /\ \E o \in Failures, d \in ProfileBodies(net[i].tok) :
                        fetchProfile(i, o, d)
         ELSE \E i \in 1..Len(net) :
                /\ net[i].k = "profile" /\ net[i].via \in {"login", "register"}
                /\ \E d \in ProfileBodies(net[i].tok) : fetchProfile(i, "ok", d)]_vars

\* C4 as stated: in every reachable state at most one analyze request is in
\* flight.
C4_AtMostOneAnalyze == Cardinality(Flying(net, "analyze")) <= 1

\* C4 as amended: at most one analyze request of the mounted FoodScannerApp is
\* in flight, and isAnalyzing (which together with a missing selection
\* disables the analyze button) stays set for as long as it is.
C4_OneAnalyzePerScanner ==
    LET mine == {i \in Flying(net, "analyze") : net[i].live}
    IN  /\ Cardinality(mine) <= 1
        /\ mine # {} => isAnalyzing /\ ScannerMounted

\* a scanner with its own analysis in flight beside the analysis of a scanner
\* that was unmounted by a logout
C4_Witness ==
    \E i, j \in Flying(net, "analyze") : net[i].live /\ ~net[j].live

\* C5: every analyze call that receives a 2xx response increments the
\* total_scans of the session by exactly 1 and issues exactly one history
\* refresh.
C5_SuccessCountsAndRefreshes ==
    [][\A i \in Flying(net, "analyze"), r \in AnalyzeBodies, s \in BOOLEAN :
         analyzeResponse(i, "ok", r, s) =>
           /\ user'.present
           /\ user'.total_scans = user.total_scans + 1
           /\ Cardinality(Flying(net', "history")) = Cardinality(Flying(net, "history")) + 1]_vars

\* C6: an analyze call that fails (non-2xx response, with or without a JSON
\* body, or network error) leaves total_scans, the ScanResult held before and
\* the nutrition slot unchanged and issues no history refresh.
C6_FailedAnalyzeKeepsState ==
    [][\A i \in Flying(net, "analyze"), o \in Failures :
         analyzeResponse(i, o, NoResult, FALSE) =>
           /\ user' = user
           /\ scanResult' = scanResult
           /\ nutritionData' = nutritionData
           /\ scanHistory' = scanHistory
           /\ Cardinality(Flying(net', "history")) = Cardinality(Flying(net, "history"))]_vars

\* a second analysis of the mounted scanner is in flight while the result and
\* the count of the first one are held
C6_Witness ==
    /\ \E i \in Flying(net, "analyze") : net[i].live
    /\ scanResult # NoResult /\ nutritionData # NoNutrition
    /\ user.total_scans > 0

fold(s) == toLowerCase(trim(s))

\* C7: no two entries of the allergy list share the same trimmed, case-folded
\* name.
C7_UniqueFoldedNames ==
    \A i, j \in 1..Len(allergies) :
        i # j => fold(allergies[i].name) # fold(allergies[j].name)

\* C8: adding a candidate whose trimmed, case-folded name is the one of an
\* entry of the list is a no-op: the list, with the severity and notes of the
\* first add, stays as it is.
C8_DuplicateAddIsNoOp ==
    [][\A n \in NameInputs, s \in SeverityInputs, o \in NoteInputs :
         /\ addAllergy(n, s, o)
         /\ \E j \in 1..Len(allergies) : fold(allergies[j].name) = fold(n)
         => allergies' = allergies]_vars

Rejected(f) == ~startsWith(f.type, S_image) \/ f.size > MaxBytes

\* C9: selecting a file whose type does not start with "image/" or whose size
\* is above 10485760 bytes leaves the selected image, the preview, the
\* ScanResult and the nutrition slot unchanged and starts no preview read; an
\* image file of exactly 10485760 bytes becomes the selected image.
C9_SelectRejectsAndAccepts ==
    [][\A f \in Files :
         handleImageSelect(f) =>
           IF Rejected(f)
           THEN UNCHANGED <<selectedImage, imagePreview, scanResult, nutritionData, net>>
           ELSE selectedImage' = f]_vars

\* the file of exactly 10485760 bytes was accepted, and its preview and a
\* result are held when the next file is offered
C9_Witness ==
    /\ ScannerMounted /\ ~showProfile
    /\ startsWith(selectedImage.type, S_image) /\ selectedImage.size = MaxBytes
    /\ imagePreview # NoPreview
    /\ scanResult # NoResult /\ nutritionData # NoNutrition

\* C10: whenever a file is accepted (its preview read is started), the
\* ScanResult and the nutrition slot are absent right after.
C10_AcceptClearsResult ==
    [][Cardinality(Flying(net', "reader")) > Cardinality(Flying(net, "reader")) =>
         scanResult' = NoResult /\ nutritionData' = NoNutrition]_vars

\* a file was just accepted (its preview is still being read) while the
\* analysis of the selection before it is in flight
C10_Witness ==
    /\ \E i \in Flying(net, "reader") : net[i].live /\ net[i].file = selectedImage
    /\ \E i \in Flying(net, "analyze") : net[i].live
    /\ scanResult = NoResult /\ nutritionData = NoNutrition

\* C11: after the mount effect of useAuth, whatever the profile fetch answers
\* (2xx, non-2xx, network error) and also with no token persisted, loading
\* eventually becomes false, and once false it never becomes true again.
C11_LoadingEndsForGood ==
    /\ <>(~loading)
    /\ [](~loading => [](~loading))

\* the session got Ready through a profile fetch that was rejected
C11_Witness ==
    /\ ~loading /\ net = <<>>
    /\ \E t \in Tokens : fetched[t] = "fail"
    /\ token = NoToken /\ ~user.present

\* C12: whenever a profile fetch ends with a non-2xx response or a network
\* error, the persisted token is absent and the user is absent once that call
\* has completed.
C12_FailedFetchClearsSession ==
    [][\A i \in Flying(net, "profile"), o \in Failures :
         \A d \in ProfileBodies(net[i].tok) :
           fetchProfile(i, o, d) => token' = NoToken /\ ~user'.present]_vars

\* C13: a login whose authentication request gets a non-2xx response changes
\* neither the user (absent when the form was submitted) nor the persisted
\* token, issues no profile fetch, and resolves to {success: false, error}
\* with an error message.
C13_RejectedLoginChangesNothing ==
    [][\A i \in Flying(net, "auth"), o \in {"http", "http_raw"}, t \in Tokens :
         net[i].via = "login" /\ AuthResponse(i, o, t) =>
           /\ user' = user
           /\ token' = token
           /\ net' = Without(net, i)
           /\ ~loginReturn(o).success
           /\ loginReturn(o).error # "undefined"]_vars

\* a login is waiting for the answer of /auth/login with nobody signed in
C13_Witness ==
    /\ \E i \in Flying(net, "auth") : net[i].via = "login"
    /\ ~user.present /\ token = NoToken

\* C14: logout is unconditional: right after it the persisted token and the
\* user are both absent, whatever was selected, shown or in flight, and it
\* issues no request (the requests in flight are the ones there were).
C14_LogoutClearsSession ==
    [][logout =>
         /\ token' = NoToken
         /\ ~user'.present
         /\ Len(net') = Len(net)
         /\ \A i \in 1..Len(net) : net'[i].k = net[i].k /\ net'[i].tok = net[i].tok]_vars

\* signed out by a logout that was clicked while an analysis was in flight
C14_Witness ==
    /\ AuthWrapperMounted /\ token = NoToken
    /\ \E i \in Flying(net, "analyze") : ~net[i].live

\* C15: when the request of saveAllergies gets a 2xx response (and the app is
\* still rendered), the allergies of the user become exactly the list that
\* was sent in that request, also when the local list was edited while the
\* request was in flight.
C15_PersistInstallsSentList ==
    [][\A i \in Flying(net, "persist") :
         persistResponse(i, "ok") /\ ~crashed =>
           user'.present /\ user'.allergies = net[i].sent]_vars

\* the local list was edited while its save is in flight: it is neither the
\* list that was sent nor the list of the user
C15_Witness ==
    \E i \in Flying(net, "persist") :
        /\ net[i].live /\ saving
        /\ net[i].sent # allergies
        /\ net[i].sent # user.allergies

\* C16: when the request of saveAllergies fails (non-2xx response or network
\* error), the local allergy list and the user are both unchanged, and the
\* saving flag of the UserProfile that issued the request is false again (a
\* UserProfile that was closed meanwhile has no flag left, and the flag of the
\* one opened after it is not touched).
C16_FailedPersistKeepsLists ==
    [][\A i \in Flying(net, "persist"), o \in Failures :
         persistResponse(i, o) =>
           /\ allergies' = allergies
           /\ user' = user
           /\ saving' = IF net[i].live THEN FALSE ELSE saving]_vars

\* a save of the open UserProfile is in flight, the flag is set, and the local
\* list differs from the list of the user
C16_Witness ==
    /\ ProfileMounted /\ saving
    /\ \E i \in Flying(net, "persist") : net[i].live
    /\ allergies # user.allergies
    /\ allergies # <<>>

\* C17: every authenticated request (save of the allergies, analyze, history
\* refresh) is issued only while a token is persisted and carries that token
\* as its bearer: no such request is in flight with the bearer read from an
\* empty store (after logout or after the token was cleared).
C17_RequestsCarryToken ==
    \A i \in 1..Len(net) :
        net[i].k \in {"persist", "analyze", "history"} => net[i].tok # NoToken

\* C18: if another image was selected while an analysis was in flight, the
\* 2xx response of that analysis is still applied when it arrives: the
\* ScanResult, the nutrition slot and total_scans are updated from it although
\* the selected image is now a different one.
C18_StaleResponseApplied ==
    [][\A i \in Flying(net, "analyze"), r \in AnalyzeBodies :
         /\ net[i].live /\ net[i].file # selectedImage
         /\ analyzeResponse(i, "ok", r, FALSE)
         => /\ scanResult' = r
            /\ nutritionData' = r.nutrition
            /\ user'.total_scans = user.total_scans + 1
            /\ selectedImage' = selectedImage]_vars

\* the analysis of one image is in flight while another image is the selected
\* one, its preview is shown and no result is on display
C18_Witness ==
    /\ \E i \in Flying(net, "analyze") :
         net[i].live /\ net[i].file # selectedImage /\ net[i].file # NoFile
    /\ imagePreview = selectedImage.name
    /\ scanResult = NoResult /\ isAnalyzing

\* C19: a history refresh that gets a 2xx response replaces the history of the
\* FoodScannerApp that issued it by the scans of the response, whatever it
\* held before; a refresh that fails leaves the history as it was and changes
\* nothing else (isAnalyzing is reset by the analyzeImage that awaited the
\* refresh, not by the refresh).
C19_RefreshReplacesOrKeeps ==
    [][\A i \in Flying(net, "history"), o \in Outcomes \ {"http_raw"}, h \in HistoryBodies :
         loadScanHistory(i, o, h) =>
           IF o = "ok"
           THEN net[i].live => scanHistory' = h
           ELSE /\ scanHistory' = scanHistory
                /\ net[i].via = "mount" => isAnalyzing' = isAnalyzing
                /\ net' = Without(net, i)
                /\ UNCHANGED <<authVars, selectedImage, imagePreview, scanResult,
                               nutritionData, showProfile, profileVars>>]_vars

\* a refresh of the mounted scanner is in flight while its history holds
\* entries
C19_Witness ==
    /\ \E i \in Flying(net, "history") : net[i].live
    /\ scanHistory # <<>>
    /\ ScannerMounted

\* C20: only the operations of useAuth write or clear the persisted token: a
\* step that changes it is the 2xx response of a login or register, a rejected
\* profile fetch or a logout; selecting an image, its preview read, analyze,
\* the history refresh, adding or removing an allergy and saving the
\* allergies leave it unchanged whatever their outcome.
C20_OnlyUseAuthWritesToken ==
    [][token' # token =>
         \/ logout
         \/ \E i \in Flying(net, "auth"), t \in Tokens : AuthResponse(i, "ok", t)
         \/ \E i \in Flying(net, "profile"), o \in Failures :
              \E d \in ProfileBodies(net[i].tok) : fetchProfile(i, o, d)]_vars

\* the token is still persisted after an image was selected and analyzed, the
\* history was refreshed and an edited allergy list was saved
C20_Witness ==
    /\ token # NoToken
    /\ imagePreview # NoPreview /\ scanResult # NoResult
    /\ scanHistory # <<>>
    /\ user.present /\ user.allergies # <<>> /\ user.total_scans > 0

\* C21: a save of the allergies and an analysis can be in flight at the same
\* time, and the response that is applied last decides the fields both write:
\* the 2xx response of a save installs the user of the render its button was
\* clicked in, total_scans included, with the list that was sent, whatever an
\* analysis added meanwhile; the 2xx response of an analysis adds 1 to the
\* total_scans of the user as it is then and leaves its other fields alone.
C21_LastResponseWins ==
    [][/\ \A i \in Flying(net, "persist") :
            persistResponse(i, "ok") /\ ~crashed =>
              user' = [net[i].usr EXCEPT !.allergies = net[i].sent]
       /\ \A i \in Flying(net, "analyze"), r \in AnalyzeBodies :
            analyzeResponse(i, "ok", r, FALSE) /\ user.present /\ ~crashed =>
              user' = [user EXCEPT !.total_scans = user.total_scans + 1]]_vars

\* a save is in flight beside an analysis whose 2xx response was applied
\* after the save was clicked and which still awaits its history refresh
C21_Witness ==
    /\ \E i \in Flying(net, "persist") :
         /\ user.present /\ net[i].usr.present
         /\ net[i].usr.total_scans # user.total_scans
    /\ \E j \in Flying(net, "history") : net[j].via = "analyze"

\* C22: in every reachable state the scan history holds at most 5 entries,
\* whatever number of scans a /scan-history response contains.
C22_HistoryAtMostPage == Len(scanHistory) <= PageSize

\* C23: while the same user stays signed in, no response of an analysis or of
\* a save of the allergies makes total_scans smaller: no increment is lost to
\* a concurrent save.
C23_TotalScansNeverDecreases ==
    [][/\ user.present /\ user'.present
       /\ \/ \E i \in Flying(net, "persist"), o \in Outcomes : persistResponse(i, o)
          \/ \E i \in Flying(net, "analyze"), o \in Outcomes :
               \E r \in AnalyzeBodies \cup {NoResult}, s \in BOOLEAN :
                 analyzeResponse(i, o, r, s)
       => user'.total_scans >= user.total_scans]_vars

\* C24: the total_scans increment of a 2xx analyze response is applied to a
\* present user only: when the response arrives after a logout, with no user,
\* applying it neither reads a property of the absent user (the render does
\* not throw) nor makes a user present.
C24_LateResponseIsHarmless ==
    [][\A i \in Flying(net, "analyze"), r \in AnalyzeBodies, s \in BOOLEAN :
         analyzeResponse(i, "ok", r, s) /\ ~user.present /\ ~crashed =>
           ~crashed' /\ ~user'.present]_vars

\* C25: once every preview read has completed, the preview shown is the one
\* read from the selected image, also when two images were accepted one after
\* the other and their reads complete in the opposite order: the onload that
\* leaves no read in flight leaves the preview of the selected image.
C25_PreviewOfSelectedImage ==
    [][\A i \in Flying(net, "reader") :
         readerOnload(i, TRUE) /\ net[i].live /\ Flying(net', "reader") = {} =>
           imagePreview' = selectedImage.name]_vars

\* C26: when the history refresh of the mount effect and the refresh of a
\* successful analysis are in flight at once, the history ends as the response
\* of the refresh issued last, whatever order the responses arrive in.  In
\* ScannerSpec a history with entries while the refresh of the mount effect is
\* still in flight is the response of a refresh issued after it: the late
\* response of the mount refresh must leave it.
C26_LastIssuedRefreshWins ==
    [][\A i \in Flying(net, "history"), h \in HistoryBodies \cup {LongHistory} :
         /\ net[i].via = "mount" /\ net[i].live
         /\ scanHistory # <<>>
         /\ loadScanHistory(i, "ok", h)
         => scanHistory' = scanHistory]_vars

\* C27: every analysis that was started eventually leaves the analyzing
\* state when its requests are answered: isAnalyzing returns to false after a
\* 2xx response, a non-2xx response (with a JSON body or not) and a network
\* error, and after a 2xx response it stays set for as long as the history
\* refresh the analysis awaits is in flight.
C27_AnalyzingEnds ==
    /\ isAnalyzing ~> ~isAnalyzing
    /\ [](\A i \in Flying(net, "history") :
            net[i].via = "analyze" /\ net[i].live => isAnalyzing)

\* an analysis got its 2xx response and awaits its history refresh
C27_Witness ==
    /\ isAnalyzing /\ scanResult # NoResult
    /\ \E i \in Flying(net, "history") : net[i].via = "analyze" /\ net[i].live
    /\ Flying(net, "analyze") = {}

\* C28: in every reachable state the nutrition slot is absent whenever the
\* ScanResult is absent, and otherwise it is the nutrition field of the
\* ScanResult on display (absent when that result carries none).
C28_NutritionFollowsResult ==
    /\ scanResult = NoResult => nutritionData = NoNutrition
    /\ scanResult # NoResult => nutritionData = scanResult.nutrition

\* the result of a second analysis, one without a nutrition field, is on
\* display with an empty nutrition slot
C28_Witness ==
    /\ scanResult # NoResult /\ scanResult.nutrition = NoNutrition
    /\ nutritionData = NoNutrition
    /\ user.total_scans > 1

====
